---------------------------- MODULE Spec2Model ----------------------------
(***************************************************************************)
(* A model of gcsa2's files.cpp: the binary and text k-mer codecs, the     *)
(* InputGraph (construction scan and the three read operations), the       *)
(* PathGraph (construction, temporary shard files, read) and the sketched  *)
(* doubling round PathGraph::prune.                                        *)
(*                                                                         *)
(* A binary stream is a sequence of machine words.  A text stream is a     *)
(* sequence of one-character strings.  size_type values are integers; the  *)
(* all-ones word ~(size_type)0 is the constant UNKNOWN.                    *)
(***************************************************************************)
EXTENDS Integers, Sequences, FiniteSets, TLC

VARIABLES
  proc,          \* "running", or "exited" after std::exit(EXIT_FAILURE)
  w_kmers,       \* codec: the vector handed to writeBinary
  w_length,      \* codec: the kmer_length handed to writeBinary
  stream,        \* codec: the binary stream written so far
  r_kmers,       \* codec: the vector filled by readBinary
  r_ret,         \* codec: [done, append, value] of the last readBinary
  ig_files,      \* InputGraph::filenames: the contents of the shard files, by file number
  ig_binary,     \* InputGraph::binary
  ig_kmer_count, \* InputGraph::kmer_count
  ig_kmer_length,\* InputGraph::kmer_length
  ig_sizes,      \* InputGraph::sizes
  out_kmers,     \* the caller's std::vector<KMer>, filled by read(kmers[, file])
  out_keys,      \* the caller's std::vector<key_type>, filled by read(keys)
  op,            \* the last InputGraph operation: [name, file]
  pg,            \* the PathGraph objects, by slot: fields, and whether the object is live
  disk,          \* the temporary files that exist, by name, with the PathNodes they hold
  temp_count,    \* the number of names tempFile() has handed out
  removals,      \* for each temporary file name, the slots whose clear() removed the file
  out_paths,     \* the caller's paths and labels vectors, filled by PathGraph::read
  pop,           \* the last PathGraph operation: [name, graph, file]
  round          \* PathGraph::prune: its position, its sorted input, the ranges it has
                 \* formed and the counter each path was counted under

codecVars == <<w_kmers, w_length, stream, r_kmers, r_ret>>
graphVars == <<ig_files, ig_binary, ig_kmer_count, ig_kmer_length, ig_sizes>>
inputVars == <<graphVars, out_kmers, out_keys, op>>
pathVars == <<pg, disk, temp_count, removals, out_paths, pop, round>>
vars == <<proc, codecVars, inputVars, pathVars>>

-----------------------------------------------------------------------------
(* Bounds of the model. *)

\* Longest vector of KMers drawn as an input.
MaxKMers == 2
\* Most sections in one binary shard file.
MaxSections == 2
\* Most lines in one text shard file.
MaxLines == 2
\* Most shard files of one InputGraph.
MaxFiles == 2
\* Number of PathGraph objects that can exist at a time.
MaxGraphs == 2
\* Most names tempFile() hands out.
MaxTemp == 4
\* Most paths in the input of a doubling round.
MaxPaths == 3

-----------------------------------------------------------------------------
(* Program constants. *)

\* ~(size_type)0, also InputGraph::UNKNOWN: the largest word of the model.
UNKNOWN == 2147483647
\* Key::MAX_LENGTH.
MAX_LENGTH == 16
\* sizeof(GraphFileHeader) in words: flags, kmer_count, kmer_length.
HEADER_WORDS == 3
\* sizeof(KMer) in words: key, from, to, sorted.
KMER_WORDS == 4
\* Number of distinct values of the non-label bits of a key.
KEY_RANGE == 4
\* Number of distinct offsets of a node position.
OFFSET_RANGE == 4

-----------------------------------------------------------------------------
(* The values of the parts of the state that a specification leaves aside. *)

NoRead == [done |-> FALSE, append |-> FALSE, exit |-> FALSE, value |-> UNKNOWN]

CodecIdle ==
  /\ w_kmers = <<>> /\ w_length = UNKNOWN /\ stream = <<>>
  /\ r_kmers = <<>> /\ r_ret = NoRead

NoOp == [name |-> "none", file |-> 0]

InputIdle ==
  /\ ig_files = <<>> /\ ig_binary = TRUE
  /\ ig_kmer_count = 0 /\ ig_kmer_length = UNKNOWN /\ ig_sizes = <<>>
  /\ out_kmers = <<>> /\ out_keys = <<>> /\ op = NoOp

NoPathOp == [name |-> "none", graph |-> 0, file |-> 0]
NoPaths == [paths |-> <<>>, labels |-> <<>>]

\* A PathGraph object after clear(); live tells whether the object exists.
ClearedGraph(live) ==
  [live |-> live, filenames |-> <<>>, sizes |-> <<>>, rank_counts |-> <<>>,
   path_count |-> 0, rank_count |-> 0, order |-> 0,
   unique |-> UNKNOWN, unsorted |-> UNKNOWN, nondeterministic |-> UNKNOWN]

\* No doubling round has started on the sorted paths.
NoRound(paths) ==
  [pc |-> "idle", paths |-> paths, first |-> 1, groups |-> <<>>,
   counted |-> [i \in 1..Len(paths) |-> <<>>]]

PathIdle ==
  /\ pg = [g \in 1..MaxGraphs |-> ClearedGraph(FALSE)]
  /\ disk = <<>> /\ temp_count = 0 /\ removals = <<>>
  /\ out_paths = NoPaths /\ pop = NoPathOp
  /\ round = NoRound(<<>>)

-----------------------------------------------------------------------------
(* Generic helpers. *)

\* All sequences over S of length at most n.
BoundedSeq(S, n) == UNION {[1..m -> S] : m \in 0..n}

\* The word at position p of a stream; a read past the end leaves zeros.
WordAt(in, p) == IF p >= 1 /\ p <= Len(in) THEN in[p] ELSE 0

RECURSIVE Concat(_)
Concat(ss) == IF ss = <<>> THEN <<>> ELSE Head(ss) \o Concat(Tail(ss))

-----------------------------------------------------------------------------
(* Key, Node and KMer. *)

KeyEncode(label, bits) == label * KEY_RANGE + bits
KeyLabel(key) == key \div KEY_RANGE
KeyBits(key) == key % KEY_RANGE
\* Bitwise or of two values below KEY_RANGE.
BitOr(a, b) ==
  (IF a % 2 = 1 \/ b % 2 = 1 THEN 1 ELSE 0)
  + 2 * (IF (a \div 2) % 2 = 1 \/ (b \div 2) % 2 = 1 THEN 1 ELSE 0)
KeyMerge(key1, key2) == KeyEncode(KeyLabel(key1), BitOr(KeyBits(key1), KeyBits(key2)))

NodeEncode(id, offset) == id * OFFSET_RANGE + offset
NodeId(node) == node \div OFFSET_RANGE
NodeOffset(node) == node % OFFSET_RANGE

KMer(key, from, to) == [key |-> key, from |-> from, to |-> to, sorted |-> FALSE]
makeSorted(kmer) == [kmer EXCEPT !.sorted = TRUE]

\* The raw bytes of one KMer, and of a vector of them.
KMerWords(kmer) == <<kmer.key, kmer.from, kmer.to, IF kmer.sorted THEN 1 ELSE 0>>
RECURSIVE RawKMers(_)
RawKMers(kmers) ==
  IF kmers = <<>> THEN <<>> ELSE KMerWords(Head(kmers)) \o RawKMers(Tail(kmers))

\* The KMer whose raw bytes start at word p of a stream.
KMerAt(in, p) ==
  [key |-> WordAt(in, p), from |-> WordAt(in, p + 1), to |-> WordAt(in, p + 2),
   sorted |-> WordAt(in, p + 3) # 0]

-----------------------------------------------------------------------------
(* GraphFileHeader, writeBinary, readBinary. *)

GraphFileHeader(kmers, length) == [flags |-> 0, kmer_count |-> kmers, kmer_length |-> length]
serialize(header) == <<header.flags, header.kmer_count, header.kmer_length>>
\* GraphFileHeader(std::istream&): the three words at position p.
HeaderAt(in, p) ==
  [flags |-> WordAt(in, p), kmer_count |-> WordAt(in, p + 1), kmer_length |-> WordAt(in, p + 2)]
\* in.eof() after reading a header at p: fewer than a header's words were left.
HeaderEof(in, p) == p + HEADER_WORDS - 1 > Len(in)

writeBinaryWrongCount(out, kmers, kmer_length) ==
  out \o serialize(GraphFileHeader(kmer_length, Len(kmers))) \o RawKMers(kmers)
writeBinary(out, kmers, kmer_length) ==
  out \o serialize(GraphFileHeader(Len(kmers), kmer_length)) \o RawKMers(kmers)

\* The result of a reader: exit is std::exit(EXIT_FAILURE).
Exited == [exit |-> TRUE, ret |-> UNKNOWN, kmers |-> <<>>]
Returned(ret, kmers) == [exit |-> FALSE, ret |-> ret, kmers |-> kmers]

InvalidLength(kmer_length) == kmer_length = 0 \/ kmer_length > MAX_LENGTH

RECURSIVE readBinaryLoop(_, _, _, _)
readBinaryLoop(in, p, kmer_length, kmers) ==
  IF HeaderEof(in, p) THEN Returned(kmer_length, kmers)
  ELSE LET header == HeaderAt(in, p)
           data == p + HEADER_WORDS
       IN IF header.flags # 0 THEN Exited
          ELSE IF kmer_length = UNKNOWN /\ InvalidLength(header.kmer_length) THEN Exited
          ELSE IF kmer_length # UNKNOWN /\ header.kmer_length # kmer_length THEN Exited
          ELSE readBinaryLoop(in, data + header.kmer_count * KMER_WORDS, header.kmer_length,
                 kmers \o [i \in 1..header.kmer_count |-> KMerAt(in, data + (i - 1) * KMER_WORDS)])

readBinary(in, kmers, append) ==
  readBinaryLoop(in, 1, UNKNOWN, IF append THEN kmers ELSE <<>>)

-----------------------------------------------------------------------------
(* Text input: std::getline, tokenize, the KMer built from tokens, readText. *)

TAB == "\t"
COMMA == ","
NL == "\n"

\* The tokens repeated std::getline(ss, token, delim) extracts from a string: every
\* delimiter ends a token, and what follows the last delimiter is a token unless empty.
RECURSIVE getlineTokens(_, _, _)
getlineTokens(str, delim, token) ==
  IF str = <<>> THEN (IF token = <<>> THEN <<>> ELSE <<token>>)
  ELSE IF Head(str) = delim THEN <<token>> \o getlineTokens(Tail(str), delim, <<>>)
  ELSE getlineTokens(Tail(str), delim, Append(token, Head(str)))

\* The lines the loop { std::getline(in, line); if(in.eof()) break; ... } processes:
\* a line that the end of the stream, not a newline, ends sets eof and is not processed.
RECURSIVE getlineLines(_, _)
getlineLines(in, line) ==
  IF in = <<>> THEN <<>>
  ELSE IF Head(in) = NL THEN <<line>> \o getlineLines(Tail(in), <<>>)
  ELSE getlineLines(Tail(in), Append(line, Head(in)))

tokenize(line) ==
  LET fields == getlineTokens(line, TAB, <<>>)
  IN IF Len(fields) # 5 THEN [ok |-> FALSE, tokens |-> fields]
     ELSE [ok |-> TRUE, tokens |-> SubSeq(fields, 1, 4) \o getlineTokens(fields[5], COMMA, <<>>)]

\* The value of a character of a label, and of a digit of a node token.
CharValue(c) ==
  CASE c = "$" -> 0 [] c = "A" -> 1 [] c = "C" -> 2 [] c = "G" -> 3 [] c = "T" -> 4
    [] OTHER -> 5
DigitValue(c) == CASE c = "1" -> 1 [] c = "2" -> 2 [] c = "3" -> 3 [] OTHER -> 0
RECURSIVE LabelValue(_)
LabelValue(str) ==
  IF str = <<>> THEN 0 ELSE LabelValue(SubSeq(str, 1, Len(str) - 1)) * 8 + CharValue(str[Len(str)])
NodeOfToken(token) == NodeEncode(IF token = <<>> THEN 0 ELSE DigitValue(token[1]), 0)

\* KMer(tokens, alpha, successor): the label of tokens[0], the start position of
\* tokens[1], the successor position of tokens[successor].
KMerOfTokens(tokens, successor) ==
  KMer(KeyEncode(LabelValue(tokens[1]), 0), NodeOfToken(tokens[2]), NodeOfToken(tokens[successor]))

RECURSIVE readTextLoop(_, _, _)
readTextLoop(lines, len, acc) ==
  IF lines = <<>> THEN Returned(len, acc)
  ELSE LET t == tokenize(Head(lines))
       IN IF ~t.ok THEN readTextLoop(Tail(lines), len, acc)
          ELSE IF len = UNKNOWN /\ InvalidLength(Len(t.tokens[1])) THEN Exited
          ELSE IF len # UNKNOWN /\ Len(t.tokens[1]) # len THEN Exited
          ELSE readTextLoop(Tail(lines), Len(t.tokens[1]),
                 acc \o [i \in 1..(Len(t.tokens) - 4) |-> KMerOfTokens(t.tokens, i + 4)])

readText(in, kmers, append) ==
  readTextLoop(getlineLines(in, <<>>), UNKNOWN, IF append THEN kmers ELSE <<>>)

\* parseKMer(kmer_line): <<kmer length, number of successors>>.
parseKMer(kmer_line) ==
  LET fields == getlineTokens(kmer_line, TAB, <<>>)
  IN IF Len(fields) = 0 THEN <<UNKNOWN, 0>>
     ELSE IF Len(fields) < 5 THEN <<Len(fields[1]), 0>>
     ELSE <<Len(fields[1]), Len(getlineTokens(fields[5], COMMA, <<>>))>>

-----------------------------------------------------------------------------
(* markSinkNode. *)

\* The index of the first kmer with label 0, or 0 when there is none.
RECURSIVE FirstEndMarker(_, _)
FirstEndMarker(kmers, i) ==
  IF i > Len(kmers) THEN 0
  ELSE IF KeyLabel(kmers[i].key) = 0 THEN i ELSE FirstEndMarker(kmers, i + 1)

SinkNode(kmers) ==
  LET i == FirstEndMarker(kmers, 1) IN IF i = 0 THEN UNKNOWN ELSE NodeId(kmers[i].from)

markSinkNode(kmers) ==
  LET sink_node == SinkNode(kmers)
  IN [i \in 1..Len(kmers) |->
        IF NodeId(kmers[i].to) = sink_node /\ NodeOffset(kmers[i].to) > 0
        THEN makeSorted(kmers[i]) ELSE kmers[i]]

-----------------------------------------------------------------------------
(* InputGraph: the construction scan, setK, checkK, the read operations. *)

\* An InputGraph's fields; exit says that std::exit was reached.
Graph(count, length, sz, exit) ==
  [kmer_count |-> count, kmer_length |-> length, sizes |-> sz, exit |-> exit]

\* checkK(new_k, file): whether the check passes.
checkK(k, new_k) == new_k = k

\* setK(new_k, file) on graph g.
setK(g, new_k) ==
  LET k == IF g.kmer_length = UNKNOWN THEN new_k ELSE g.kmer_length
  IN [g EXCEPT !.kmer_length = k, !.exit = ~checkK(k, new_k)]

\* The scan of the sections of binary file number file, from word p on.
RECURSIVE scanBinary(_, _, _, _)
scanBinary(in, p, g, file) ==
  IF g.exit \/ HeaderEof(in, p) THEN g
  ELSE LET header == HeaderAt(in, p)
           counted == [g EXCEPT !.kmer_count = @ + header.kmer_count]
           checked == setK(counted, header.kmer_length)
       IN IF checked.exit THEN checked
          ELSE scanBinary(in, p + HEADER_WORDS + header.kmer_count * KMER_WORDS,
                 [checked EXCEPT !.sizes[file] = @ + header.kmer_count], file)

\* The scan of the lines of text file number file.
RECURSIVE scanText(_, _, _)
scanText(lines, g, file) ==
  IF g.exit \/ lines = <<>> THEN g
  ELSE LET temp == parseKMer(Head(lines))
           checked == setK(g, temp[1])
       IN IF checked.exit THEN checked
          ELSE scanText(Tail(lines),
                 [checked EXCEPT !.kmer_count = @ + temp[2], !.sizes[file] = @ + temp[2]], file)

RECURSIVE scanFiles(_, _, _, _)
scanFiles(contents, is_binary, g, file) ==
  IF g.exit \/ file > Len(contents) THEN g
  ELSE scanFiles(contents, is_binary,
         IF is_binary THEN scanBinary(contents[file], 1, g, file)
         ELSE scanText(getlineLines(contents[file], <<>>), g, file),
         file + 1)

\* InputGraph::InputGraph(file_count, base_names, binary_format).
InputGraphScan(contents, is_binary) ==
  scanFiles(contents, is_binary, Graph(0, UNKNOWN, [f \in 1..Len(contents) |-> 0], FALSE), 1)

\* read(kmers, file, append) without the final markSinkNode.
readFile(contents, is_binary, k, kmers, file, append) ==
  LET res == IF is_binary THEN readBinary(contents[file], kmers, append)
             ELSE readText(contents[file], kmers, append)
  IN IF res.exit \/ ~checkK(k, res.ret) THEN Exited ELSE res

\* read(kmers, file, append = false).
readOneFile(contents, is_binary, k, file) ==
  LET res == readFile(contents, is_binary, k, <<>>, file, FALSE)
  IN IF res.exit THEN res ELSE Returned(res.ret, markSinkNode(res.kmers))

RECURSIVE readAppendFiles(_, _, _, _, _)
readAppendFiles(contents, is_binary, k, kmers, file) ==
  IF file > Len(contents) THEN Returned(k, kmers)
  ELSE LET res == readFile(contents, is_binary, k, kmers, file, TRUE)
       IN IF res.exit THEN res
          ELSE readAppendFiles(contents, is_binary, k, res.kmers, file + 1)

\* read(kmers): every file appended, then markSinkNode.
readAllFiles(contents, is_binary, k) ==
  LET res == readAppendFiles(contents, is_binary, k, <<>>, 1)
  IN IF res.exit THEN res ELSE Returned(res.ret, markSinkNode(res.kmers))

\* parallelQuickSort on integers: the sequence in increasing order.
RECURSIVE InsertSorted(_, _)
InsertSorted(sorted, x) ==
  IF sorted = <<>> THEN <<x>>
  ELSE IF x <= Head(sorted) THEN <<x>> \o sorted
  ELSE <<Head(sorted)>> \o InsertSorted(Tail(sorted), x)
RECURSIVE parallelQuickSort(_)
parallelQuickSort(seq) ==
  IF seq = <<>> THEN <<>> ELSE InsertSorted(parallelQuickSort(Tail(seq)), Head(seq))

\* The keys read(keys) collects from the files: kmers[i].key for i < sizes[file]. An
\* index past the loaded kmers reads outside the vector; garbage is what it finds.
RECURSIVE collectKeys(_, _, _, _, _, _, _)
collectKeys(contents, is_binary, k, sz, file, keys, garbage) ==
  IF file > Len(contents) THEN [exit |-> FALSE, keys |-> keys]
  ELSE LET res == readOneFile(contents, is_binary, k, file)
       IN IF res.exit THEN [exit |-> TRUE, keys |-> <<>>]
          ELSE collectKeys(contents, is_binary, k, sz, file + 1,
                 keys \o [i \in 1..sz[file] |->
                            IF i <= Len(res.kmers) THEN res.kmers[i].key ELSE garbage],
                 garbage)

\* std::vector::resize(n): cut, or filled with value-initialized (zero) elements.
resize(seq, n) == [x \in 1..n |-> IF x <= Len(seq) THEN seq[x] ELSE 0]

\* The merge loop of read(keys) over sorted keys, i and j counted from 1: the keys
\* and the final i.
RECURSIVE mergeLoop(_, _, _)
mergeLoop(keys, i, j) ==
  IF j > Len(keys) THEN [keys |-> keys, i |-> i]
  ELSE IF KeyLabel(keys[i]) = KeyLabel(keys[j])
       THEN mergeLoop([keys EXCEPT ![i] = KeyMerge(keys[i], keys[j])], i, j + 1)
       ELSE mergeLoop([keys EXCEPT ![i + 1] = keys[j]], i + 1, j + 1)

\* The second half of read(keys): sort, merge the keys sharing a label, resize(i + 1).
sortAndMerge(keys) ==
  LET merged == mergeLoop(parallelQuickSort(keys), 1, 2)
  IN resize(merged.keys, merged.i)

-----------------------------------------------------------------------------
(* The InputGraph over shard files drawn from samples. *)

\* One section of a binary shard: any header, followed by its records.
Section(flags, length, kmers) == [flags |-> flags, kmer_length |-> length, kmers |-> kmers]
SectionWords(section) ==
  <<section.flags, Len(section.kmers), section.kmer_length>> \o RawKMers(section.kmers)

EndMarkerKMer == KMer(KeyEncode(0, 0), NodeEncode(3, 0), NodeEncode(0, 0))
SectionSamples ==
  { Section(0, 2, <<EndMarkerKMer>>),
    Section(0, 2, << KMer(KeyEncode(1, 1), NodeEncode(1, 0), NodeEncode(3, 1)),
                     KMer(KeyEncode(1, 2), NodeEncode(2, 0), NodeEncode(3, 0)) >>),
    Section(0, 2, <<>>),
    Section(0, 3, <<KMer(KeyEncode(2, 1), NodeEncode(1, 0), NodeEncode(2, 0))>>),
    Section(1, 2, <<KMer(KeyEncode(2, 1), NodeEncode(1, 0), NodeEncode(2, 0))>>),
    Section(0, 0, <<>>),
    Section(0, MAX_LENGTH + 1, <<>>),
    Section(0, UNKNOWN, <<>>) }

BinaryShards ==
  { Concat([i \in 1..Len(ss) |-> SectionWords(ss[i])]) :
      ss \in BoundedSeq(SectionSamples, MaxSections) }

LineSamples ==
  { <<"A", "C", TAB, "X", TAB, "Y", TAB, "Z", TAB, "1", COMMA, "2">>,
    <<"G", "T", "A", TAB, "X", TAB, "Y", TAB, "Z", TAB, "3">>,
    <<"A", "C", TAB, "X">>,
    <<"G", "T", "A", TAB, "X">>,
    <<>>,
    <<"A", "C", TAB, "X", TAB, "Y", TAB, "Z", TAB, "1", TAB, "W">> }

\* Lines joined by newlines; the last line ends with one when terminated.
RECURSIVE JoinLines(_, _)
JoinLines(lines, terminated) ==
  IF lines = <<>> THEN <<>>
  ELSE IF Len(lines) = 1 THEN Head(lines) \o (IF terminated THEN <<NL>> ELSE <<>>)
  ELSE Head(lines) \o <<NL>> \o JoinLines(Tail(lines), terminated)

TextShards ==
  { JoinLines(ls, t) : ls \in BoundedSeq(LineSamples, MaxLines), t \in BOOLEAN }

InputInit ==
  /\ proc = "running"
  /\ ig_binary \in BOOLEAN
  /\ ig_files \in BoundedSeq(IF ig_binary THEN BinaryShards ELSE TextShards, MaxFiles)
  /\ ig_kmer_count = 0 /\ ig_kmer_length = UNKNOWN /\ ig_sizes = <<>>
  /\ out_kmers = <<>> /\ out_keys = <<>> /\ op = NoOp
  /\ CodecIdle
  /\ PathIdle

Op(name, file) == [name |-> name, file |-> file]
Constructed == op.name # "none"

\* InputGraph::InputGraph(file_count, base_names, binary_format).
Construct ==
  /\ proc = "running" /\ ~Constructed
  /\ LET g == InputGraphScan(ig_files, ig_binary)
     IN /\ ig_kmer_count' = g.kmer_count
        /\ ig_kmer_length' = g.kmer_length
        /\ ig_sizes' = g.sizes
        /\ proc' = IF g.exit THEN "exited" ELSE "running"
  /\ op' = Op("InputGraph", 0)
  /\ UNCHANGED <<ig_files, ig_binary, out_kmers, out_keys, codecVars, pathVars>>

\* InputGraph::read(std::vector<KMer>& kmers).
ReadKMers ==
  /\ proc = "running" /\ Constructed
  /\ LET res == readAllFiles(ig_files, ig_binary, ig_kmer_length)
     IN /\ proc' = IF res.exit THEN "exited" ELSE "running"
        /\ out_kmers' = IF res.exit THEN out_kmers ELSE res.kmers
  /\ op' = Op("read(kmers)", 0)
  /\ UNCHANGED <<graphVars, out_keys, codecVars, pathVars>>

\* InputGraph::read(std::vector<KMer>& kmers, size_type file, bool append = false);
\* open() exits on an invalid file number.
ReadFile(file) ==
  /\ proc = "running" /\ Constructed
  /\ LET res == IF file \in 1..Len(ig_files)
                THEN readOneFile(ig_files, ig_binary, ig_kmer_length, file) ELSE Exited
     IN /\ proc' = IF res.exit THEN "exited" ELSE "running"
        /\ out_kmers' = IF res.exit THEN out_kmers ELSE res.kmers
  /\ op' = Op("read(kmers, file)", file)
  /\ UNCHANGED <<graphVars, out_keys, codecVars, pathVars>>

\* What a read outside the loaded vector can find.
GarbageKeys == {0, KeyEncode(1, 3)}

\* InputGraph::read(std::vector<key_type>& keys).
ReadKeys ==
  /\ proc = "running" /\ Constructed
  /\ \E garbage \in GarbageKeys :
       LET res == collectKeys(ig_files, ig_binary, ig_kmer_length, ig_sizes, 1, <<>>, garbage)
       IN /\ proc' = IF res.exit THEN "exited" ELSE "running"
          /\ out_keys' = IF res.exit THEN out_keys ELSE sortAndMerge(res.keys)
  /\ op' = Op("read(keys)", 0)
  /\ UNCHANGED <<graphVars, out_kmers, codecVars, pathVars>>

InputNext ==
  \/ Construct
  \/ ReadKMers
  \/ \E file \in 1..(MaxFiles + 1) : ReadFile(file)
  \/ ReadKeys

SpecInput == InputInit /\ [][InputNext]_vars

-----------------------------------------------------------------------------
(* What the shard files hold, read without any of the readers' checks. *)

\* The section headers of a binary shard, in file order.
RECURSIVE Headers(_, _)
Headers(in, p) ==
  IF HeaderEof(in, p) THEN <<>>
  ELSE <<HeaderAt(in, p)>> \o Headers(in, p + HEADER_WORDS + HeaderAt(in, p).kmer_count * KMER_WORDS)

\* Every line of a text shard, the last one included when no newline ends it.
RECURSIVE AllLines(_, _)
AllLines(in, line) ==
  IF in = <<>> THEN (IF line = <<>> THEN <<>> ELSE <<line>>)
  ELSE IF Head(in) = NL THEN <<line>> \o AllLines(Tail(in), <<>>)
  ELSE AllLines(Tail(in), Append(line, Head(in)))

FieldCount(line) == Len(getlineTokens(line, TAB, <<>>))
WellFormed(line) == FieldCount(line) = 5

\* The context lengths a shard declares: those of its section headers, or those of
\* the first field of its newline-terminated lines of 5 fields.
DeclaredLengths(in, is_binary) ==
  IF is_binary THEN {Headers(in, 1)[i].kmer_length : i \in 1..Len(Headers(in, 1))}
  ELSE LET lines == SelectSeq(getlineLines(in, <<>>), WellFormed)
       IN {Len(getlineTokens(lines[i], TAB, <<>>)[1]) : i \in 1..Len(lines)}

AllDeclaredLengths(contents, is_binary) ==
  UNION {DeclaredLengths(contents[f], is_binary) : f \in 1..Len(contents)}

\* The KMers a line of 5 fields stands for: one per successor token, in token order.
KMersOfLine(line) ==
  LET fields == getlineTokens(line, TAB, <<>>)
      successors == getlineTokens(fields[5], COMMA, <<>>)
  IN [i \in 1..Len(successors) |-> KMerOfTokens(SubSeq(fields, 1, 4) \o successors, i + 4)]

RECURSIVE KMersOfLines(_)
KMersOfLines(lines) ==
  IF lines = <<>> THEN <<>>
  ELSE (IF WellFormed(Head(lines)) THEN KMersOfLine(Head(lines)) ELSE <<>>)
       \o KMersOfLines(Tail(lines))

\* A text shard without its lines of fewer than 5 fields.
HasFiveFields(line) == FieldCount(line) >= 5
WithoutShortLines(in) == JoinLines(SelectSeq(getlineLines(in, <<>>), HasFiveFields), TRUE)

\* The set S of integers as an increasing sequence.
RECURSIVE Increasing(_)
Increasing(S) ==
  IF S = {} THEN <<>>
  ELSE LET least == CHOOSE x \in S : \A y \in S : x <= y
       IN <<least>> \o Increasing(S \ {least})

\* The or of the non-label bits of the keys of a set.
RECURSIVE OrBits(_)
OrBits(S) ==
  IF S = {} THEN 0
  ELSE LET k == CHOOSE x \in S : TRUE IN BitOr(KeyBits(k), OrBits(S \ {k}))

-----------------------------------------------------------------------------
(* The codec on its own: vectors are written to a stream and read back. *)

KMerSamples ==
  { KMer(KeyEncode(0, 0), NodeEncode(3, 0), NodeEncode(0, 0)),
    makeSorted(KMer(KeyEncode(1, 1), NodeEncode(1, 0), NodeEncode(3, 1))) }
LengthSamples == {0, 2, 3, MAX_LENGTH, MAX_LENGTH + 1, UNKNOWN}

CodecInit ==
  /\ proc = "running"
  /\ w_kmers \in BoundedSeq(KMerSamples, MaxKMers)
  /\ w_length \in LengthSamples
  /\ stream = <<>>
  /\ r_kmers \in BoundedSeq(KMerSamples, 1)
  /\ r_ret = NoRead
  /\ InputIdle
  /\ PathIdle

\* writeBinary(out, kmers, kmer_length) on the stream, once.
WriteBinary ==
  /\ proc = "running" /\ stream = <<>> /\ ~r_ret.done
  /\ stream' = writeBinary(stream, w_kmers, w_length)
  /\ UNCHANGED <<proc, w_kmers, w_length, r_kmers, r_ret, inputVars, pathVars>>

\* readBinary(in, kmers, append) on the whole stream.
ReadBinary(append) ==
  /\ proc = "running" /\ ~r_ret.done
  /\ LET res == readBinary(stream, r_kmers, append)
     IN /\ proc' = IF res.exit THEN "exited" ELSE "running"
        /\ r_kmers' = IF res.exit THEN r_kmers ELSE res.kmers
        /\ r_ret' = [done |-> TRUE, append |-> append, exit |-> res.exit, value |-> res.ret]
  /\ UNCHANGED <<w_kmers, w_length, stream, inputVars, pathVars>>

CodecNext == WriteBinary \/ \E append \in BOOLEAN : ReadBinary(append)

SpecCodec == CodecInit /\ [][CodecNext]_vars

\* The stream holds one section, and readBinary(append = false) has run on it.
RoundTripDone == stream # <<>> /\ r_ret.done /\ ~r_ret.append

\* C1 as stated: for every vector of KMers and every context length, writeBinary
\* followed by readBinary (append = false) returns the same records in the same
\* order and reports the context length that was written.
C1_RoundTripEveryLength ==
  RoundTripDone => (~r_ret.exit /\ r_kmers = w_kmers /\ r_ret.value = w_length)

\* C1 amended: the same, for every context length from 1 to Key::MAX_LENGTH.
C1_RoundTripValidLength ==
  (RoundTripDone /\ w_length \in 1..MAX_LENGTH)
    => (~r_ret.exit /\ r_kmers = w_kmers /\ r_ret.value = w_length)

\* A vector of two records was written with a valid length and read back.
C1_Witness ==
  /\ RoundTripDone /\ w_length \in 1..MAX_LENGTH
  /\ Len(w_kmers) >= 2 /\ r_kmers = w_kmers /\ r_ret.value = w_length

-----------------------------------------------------------------------------
(* PathGraph: temporary files, construction, clear, swap, read. *)

\* The file system and the tempFile() counter: w.disk[n] tells whether the file
\* named n exists and which PathNodes it holds, w.removals[n] which PathGraph
\* objects removed it.
World(d, count, rem) == [disk |-> d, temp_count |-> count, removals |-> rem]
NoFile == [exists |-> FALSE, paths |-> <<>>]

\* tempFile(PREFIX): a name never handed out before.
tempFile(w) ==
  [w EXCEPT !.temp_count = @ + 1, !.disk = Append(@, NoFile), !.removals = Append(@, {})]

\* std::ofstream out(temp_file, binary), then the PathNodes written until out.close().
writeFile(w, name, paths) == [w EXCEPT !.disk[name] = [exists |-> TRUE, paths |-> paths]]

\* remove(filename) by the object in slot g.
removeFile(w, name, g) ==
  IF w.disk[name].exists
  THEN [w EXCEPT !.disk[name] = NoFile, !.removals[name] = @ \cup {g}]
  ELSE w

\* PathNode(kmer, temp_labels): the positions and the sorted flag of the kmer, and
\* the label of its key as the first and the last rank.
PathNode(kmer) ==
  [from |-> kmer.from, to |-> kmer.to, sorted |-> kmer.sorted,
   ranks |-> <<KeyLabel(kmer.key), KeyLabel(kmer.key)>>]

\* Key::replace(key, rank).
KeyReplace(key, rank) == KeyEncode(rank, KeyBits(key))

\* The records of a binary shard, sections concatenated.
RECURSIVE RecordsOf(_, _)
RecordsOf(in, p) ==
  IF HeaderEof(in, p) THEN <<>>
  ELSE LET count == HeaderAt(in, p).kmer_count
           data == p + HEADER_WORDS
       IN [i \in 1..count |-> KMerAt(in, data + (i - 1) * KMER_WORDS)]
          \o RecordsOf(in, data + count * KMER_WORDS)

\* The labels of the keys of the source's records: the set bits of key_exists.
key_exists(contents) ==
  UNION { {KeyLabel(RecordsOf(contents[f], 1)[i].key) : i \in 1..Len(RecordsOf(contents[f], 1))} :
          f \in 1..Len(contents) }

\* key_rank(label): the number of set bits of key_exists before position label.
key_rank(contents, label) == Cardinality({l \in key_exists(contents) : l < label})

\* parallelQuickSort on KMers: by key.
RECURSIVE InsertByKey(_, _)
InsertByKey(sorted, kmer) ==
  IF sorted = <<>> THEN <<kmer>>
  ELSE IF kmer.key <= Head(sorted).key THEN <<kmer>> \o sorted
  ELSE <<Head(sorted)>> \o InsertByKey(Tail(sorted), kmer)
RECURSIVE sortKMers(_)
sortKMers(kmers) ==
  IF kmers = <<>> THEN <<>> ELSE InsertByKey(sortKMers(Tail(kmers)), Head(kmers))

\* The PathNodes the constructor writes for the kmers of one file.
pathNodesOf(contents, kmers) ==
  LET sorted == sortKMers(kmers)
  IN [i \in 1..Len(sorted) |->
        PathNode([sorted[i] EXCEPT !.key = KeyReplace(@, key_rank(contents, KeyLabel(@)))])]

\* The result of a PathGraph operation on graph g in world w.
PathResult(w, g, exit) == [world |-> w, graph |-> g, exit |-> exit]

\* The file loop of PathGraph::PathGraph(source, key_exists), from file number file
\* on. The output file of file number fail_at cannot be opened (0: all can).
RECURSIVE fromInputLoop(_, _, _, _, _, _, _)
fromInputLoop(w, g, contents, sz, k, file, fail_at) ==
  IF file > Len(contents) THEN PathResult(w, g, FALSE)
  ELSE LET named == tempFile(w)
           temp_file == named.temp_count
           listed == [g EXCEPT !.filenames = Append(@, temp_file),
                               !.sizes = Append(@, sz[file]),
                               !.path_count = @ + sz[file],
                               !.rank_counts = Append(@, 2 * sz[file]),
                               !.rank_count = @ + 2 * sz[file]]
           opened == writeFile(named, temp_file, <<>>)
           res == readOneFile(contents, TRUE, k, file)
       IN IF file = fail_at THEN PathResult(named, listed, TRUE)
          ELSE IF res.exit THEN PathResult(opened, listed, TRUE)
          ELSE fromInputLoop(writeFile(named, temp_file, pathNodesOf(contents, res.kmers)),
                             listed, contents, sz, k, file + 1, fail_at)

\* PathGraph::PathGraph(const InputGraph& source, sdsl::sd_vector<>& key_exists).
PathGraphFromInput(w, contents, sz, k, fail_at) ==
  fromInputLoop(w, [ClearedGraph(TRUE) EXCEPT !.order = k], contents, sz, k, 1, fail_at)

\* PathGraph::PathGraph(size_type file_count, size_type path_order).
RECURSIVE skeletonNames(_, _, _)
skeletonNames(w, g, left) ==
  IF left = 0 THEN PathResult(w, g, FALSE)
  ELSE skeletonNames(tempFile(w),
         [g EXCEPT !.filenames = Append(@, w.temp_count + 1), !.sizes = Append(@, 0),
                   !.rank_counts = Append(@, 0)],
         left - 1)
PathGraphSkeleton(w, file_count, path_order) ==
  skeletonNames(w, [ClearedGraph(TRUE) EXCEPT !.order = path_order,
                      !.unique = 0, !.unsorted = 0, !.nondeterministic = 0],
                file_count)

\* PathGraphBuilder::PathGraphBuilder(file_count, path_order): the skeleton, and its
\* files opened for writing.
RECURSIVE builderOpen(_, _, _, _)
builderOpen(w, g, file, fail_at) ==
  IF file > Len(g.filenames) THEN PathResult(w, g, FALSE)
  ELSE IF file = fail_at THEN PathResult(w, g, TRUE)
  ELSE builderOpen(writeFile(w, g.filenames[file], <<>>), g, file + 1, fail_at)
PathGraphBuilder(w, file_count, path_order, fail_at) ==
  LET made == PathGraphSkeleton(w, file_count, path_order)
  IN builderOpen(made.world, made.graph, 1, fail_at)

\* PathGraph::clear() of the object in slot slot.
RECURSIVE clearFiles(_, _, _, _)
clearFiles(w, filenames, file, slot) ==
  IF file > Len(filenames) THEN w
  ELSE clearFiles(removeFile(w, filenames[file], slot), filenames, file + 1, slot)
clear(w, g, slot) == PathResult(clearFiles(w, g.filenames, 1, slot), ClearedGraph(g.live), FALSE)

\* PathNode(input, labels) for i < count: the nodes of the file, and past its end
\* whatever the failed reads leave in the node.
readNodes(file_paths, count, garbage) ==
  [i \in 1..count |-> IF i <= Len(file_paths) THEN file_paths[i] ELSE garbage]

\* PathGraph::read(paths, labels, file, append): the paths vector; labels holds
\* their ranks. PathGraph::open exits on a bad file number or a missing file.
readPathFile(d, g, paths, file, append, garbage) ==
  IF file \notin 1..Len(g.filenames) \/ ~d[g.filenames[file]].exists
  THEN [exit |-> TRUE, paths |-> <<>>]
  ELSE [exit |-> FALSE,
        paths |-> (IF append THEN paths ELSE <<>>)
                  \o readNodes(d[g.filenames[file]].paths, g.path_count, garbage)]

RECURSIVE readPathFiles(_, _, _, _, _)
readPathFiles(d, g, paths, file, garbage) ==
  IF file > Len(g.filenames) THEN [exit |-> FALSE, paths |-> paths]
  ELSE LET res == readPathFile(d, g, paths, file, TRUE, garbage)
       IN IF res.exit THEN res ELSE readPathFiles(d, g, res.paths, file + 1, garbage)

\* PathFirstComparator: by the first rank of the path.
FirstLabel(path) == IF path.ranks = <<>> THEN 0 ELSE path.ranks[1]
RECURSIVE InsertByFirst(_, _)
InsertByFirst(sorted, path) ==
  IF sorted = <<>> THEN <<path>>
  ELSE IF FirstLabel(path) <= FirstLabel(Head(sorted)) THEN <<path>> \o sorted
  ELSE <<Head(sorted)>> \o InsertByFirst(Tail(sorted), path)
RECURSIVE sortByFirst(_)
sortByFirst(paths) ==
  IF paths = <<>> THEN <<>> ELSE InsertByFirst(sortByFirst(Tail(paths)), Head(paths))

\* PathGraph::read(paths, labels).
readAllPaths(d, g, garbage) ==
  LET res == readPathFiles(d, g, <<>>, 1, garbage)
  IN IF res.exit THEN res ELSE [exit |-> FALSE, paths |-> sortByFirst(res.paths)]

\* The labels vector that goes with a paths vector.
RECURSIVE labelsOf(_)
labelsOf(paths) == IF paths = <<>> THEN <<>> ELSE Head(paths).ranks \o labelsOf(Tail(paths))

-----------------------------------------------------------------------------
(* PathGraph objects over a constructed binary InputGraph. *)

PathSectionSamples ==
  { Section(0, 2, <<EndMarkerKMer>>),
    Section(0, 2, << KMer(KeyEncode(2, 2), NodeEncode(2, 0), NodeEncode(3, 0)),
                     KMer(KeyEncode(1, 1), NodeEncode(1, 0), NodeEncode(3, 1)) >>),
    Section(1, 2, <<KMer(KeyEncode(2, 1), NodeEncode(1, 0), NodeEncode(2, 0))>>) }

PathSourceShards ==
  { Concat([i \in 1..Len(ss) |-> SectionWords(ss[i])]) : ss \in BoundedSeq(PathSectionSamples, 1) }

PathInit ==
  /\ proc = "running"
  /\ ig_binary = TRUE
  /\ ig_files \in BoundedSeq(PathSourceShards, MaxFiles)
  /\ LET g == InputGraphScan(ig_files, TRUE)
     IN /\ ~g.exit
        /\ ig_kmer_count = g.kmer_count /\ ig_kmer_length = g.kmer_length /\ ig_sizes = g.sizes
  /\ out_kmers = <<>> /\ out_keys = <<>> /\ op = Op("InputGraph", 0)
  /\ CodecIdle
  /\ PathIdle

PathOp(name, graph, file) == [name |-> name, graph |-> graph, file |-> file]
TheWorld == World(disk, temp_count, removals)

\* The next state after a PathGraph operation left world w and, in slot slot, graph g.
PathStep(res, slot, name, file) ==
  /\ disk' = res.world.disk
  /\ temp_count' = res.world.temp_count
  /\ removals' = res.world.removals
  /\ pg' = [pg EXCEPT ![slot] = res.graph]
  /\ proc' = IF res.exit THEN "exited" ELSE "running"
  /\ pop' = PathOp(name, slot, file)

\* PathGraph graph(source, key_exists) in a free slot.
NewPathGraph(slot, fail_at) ==
  /\ proc = "running" /\ ~pg[slot].live
  /\ temp_count + Len(ig_files) <= MaxTemp
  /\ PathStep(PathGraphFromInput(TheWorld, ig_files, ig_sizes, ig_kmer_length, fail_at),
              slot, "PathGraph(source)", 0)
  /\ UNCHANGED <<out_paths, round, codecVars, inputVars>>

\* PathGraphBuilder builder(file_count, path_order): builder.graph in a free slot.
NewBuilder(slot, file_count, path_order, fail_at) ==
  /\ proc = "running" /\ ~pg[slot].live
  /\ temp_count + file_count <= MaxTemp
  /\ PathStep(PathGraphBuilder(TheWorld, file_count, path_order, fail_at),
              slot, "PathGraphBuilder", 0)
  /\ UNCHANGED <<out_paths, round, codecVars, inputVars>>

\* PathGraph::swap(another).
Swap(this, another) ==
  /\ proc = "running" /\ this # another /\ pg[this].live /\ pg[another].live
  /\ pg' = [pg EXCEPT ![this] = pg[another], ![another] = pg[this]]
  /\ pop' = PathOp("swap", this, 0)
  /\ UNCHANGED <<proc, disk, temp_count, removals, out_paths, round, codecVars, inputVars>>

\* PathGraph::clear().
Clear(slot) ==
  /\ proc = "running" /\ pg[slot].live
  /\ PathStep(clear(TheWorld, pg[slot], slot), slot, "clear", 0)
  /\ UNCHANGED <<out_paths, round, codecVars, inputVars>>

\* PathGraph::~PathGraph(): clear(), and the object is gone.
Destroy(slot) ==
  /\ proc = "running" /\ pg[slot].live
  /\ LET res == clear(TheWorld, pg[slot], slot)
     IN PathStep([res EXCEPT !.graph.live = FALSE], slot, "~PathGraph", 0)
  /\ UNCHANGED <<out_paths, round, codecVars, inputVars>>

\* What PathNode(input, labels) holds after a read past the end of the file.
GarbagePaths ==
  { [from |-> 0, to |-> 0, sorted |-> FALSE, ranks |-> <<>>],
    [from |-> NodeEncode(1, 0), to |-> NodeEncode(1, 0), sorted |-> TRUE, ranks |-> <<0, 0>>] }

\* PathGraph::read(paths, labels).
ReadPaths(slot) ==
  /\ proc = "running" /\ pg[slot].live
  /\ \E garbage \in GarbagePaths :
       LET res == readAllPaths(disk, pg[slot], garbage)
       IN /\ proc' = IF res.exit THEN "exited" ELSE "running"
          /\ out_paths' = IF res.exit THEN out_paths
                          ELSE [paths |-> res.paths, labels |-> labelsOf(res.paths)]
  /\ pop' = PathOp("read(paths, labels)", slot, 0)
  /\ UNCHANGED <<pg, disk, temp_count, removals, round, codecVars, inputVars>>

\* PathGraph::read(paths, labels, file, append = false).
ReadPathFile(slot, file) ==
  /\ proc = "running" /\ pg[slot].live
  /\ \E garbage \in GarbagePaths :
       LET res == readPathFile(disk, pg[slot], <<>>, file, FALSE, garbage)
       IN /\ proc' = IF res.exit THEN "exited" ELSE "running"
          /\ out_paths' = IF res.exit THEN out_paths
                          ELSE [paths |-> res.paths, labels |-> labelsOf(res.paths)]
  /\ pop' = PathOp("read(paths, labels, file)", slot, file)
  /\ UNCHANGED <<pg, disk, temp_count, removals, round, codecVars, inputVars>>

\* The orders a builder's graph is made with.
PathOrders == {4}

PathNext ==
  \/ \E slot \in 1..MaxGraphs : \E fail_at \in 0..MaxFiles : NewPathGraph(slot, fail_at)
  \/ \E slot \in 1..MaxGraphs : \E file_count \in 0..MaxFiles : \E fail_at \in 0..MaxFiles :
       \E path_order \in PathOrders : NewBuilder(slot, file_count, path_order, fail_at)
  \/ \E this, another \in 1..MaxGraphs : Swap(this, another)
  \/ \E slot \in 1..MaxGraphs : Clear(slot)
  \/ \E slot \in 1..MaxGraphs : Destroy(slot)
  \/ \E slot \in 1..MaxGraphs : ReadPaths(slot)
  \/ \E slot \in 1..MaxGraphs : \E file \in 1..(MaxFiles + 1) : ReadPathFile(slot, file)

SpecPath == PathInit /\ [][PathNext]_vars

-----------------------------------------------------------------------------
(* Claims about the InputGraph. *)

\* C2: whenever an InputGraph is built over two or more shards that declare
\* different context lengths (two shards, or two sections or lines of one shard), the
\* construction ends in the fatal exit, before any record is returned: the graph
\* never ends up constructed and holding one of the lengths as its k().
C2_MixedLengthsAreFatal ==
  (Constructed /\ Len(ig_files) >= 2
     /\ Cardinality(AllDeclaredLengths(ig_files, ig_binary)) >= 2)
    => (proc = "exited" /\ op.name = "InputGraph")

\* The construction scan and the whole-graph read of a text InputGraph over the
\* same shards without their lines of fewer than 5 fields.
ShortLinesRemoved == [f \in 1..Len(ig_files) |-> WithoutShortLines(ig_files[f])]
ScanWithoutShortLines == InputGraphScan(ShortLinesRemoved, FALSE)
ReadWithoutShortLines ==
  readAllFiles(ShortLinesRemoved, FALSE, ScanWithoutShortLines.kmer_length)

\* C3: in a text shard, a line of fewer than 5 fields never terminates the process,
\* in the construction scan or in a read, and contributes no KMer, and the other
\* lines are processed as they are without it: the scan and the read end as they do
\* on the shards without those lines, with the same counts and the same records.
C3_ShortLinesAreSkipped ==
  /\ (~ig_binary /\ op.name = "InputGraph")
       => /\ (proc = "exited") = ScanWithoutShortLines.exit
          /\ proc = "running"
               => /\ ig_kmer_count = ScanWithoutShortLines.kmer_count
                  /\ ig_sizes = ScanWithoutShortLines.sizes
  /\ (~ig_binary /\ op.name = "read(kmers)" /\ ~ScanWithoutShortLines.exit)
       => /\ (proc = "exited") = ReadWithoutShortLines.exit
          /\ proc = "running" => out_kmers = ReadWithoutShortLines.kmers

\* C4: readText yields, for each line of exactly 5 tab-separated fields whose 5th
\* field holds n successor tokens, n KMers with that line's label, one per token in
\* token order, for every line of the input, the last one included.
C4_OneKMerPerSuccessor ==
  (~ig_binary /\ op.name = "read(kmers, file)" /\ proc = "running")
    => out_kmers = KMersOfLines(AllLines(ig_files[op.file], <<>>))

\* A header no reader may accept: nonzero flags, or a first-observed context length
\* that is 0 or greater than Key::MAX_LENGTH.
InvalidHeaderAt(contents, f, i) ==
  LET headers == Headers(contents[f], 1)
  IN \/ headers[i].flags # 0
     \/ /\ i = 1 /\ \A e \in 1..(f - 1) : Headers(contents[e], 1) = <<>>
        /\ InvalidLength(headers[i].kmer_length)
HoldsInvalidHeader(contents) ==
  \E f \in 1..Len(contents) : \E i \in 1..Len(Headers(contents[f], 1)) :
    InvalidHeaderAt(contents, f, i)

\* C5: a section header with flags # 0, or a first-observed context length that is 0
\* or greater than Key::MAX_LENGTH, terminates the first operation that observes it,
\* which is the construction scan: no InputGraph over such a shard is constructed.
C5_InvalidHeadersAreFatal ==
  (ig_binary /\ Constructed /\ HoldsInvalidHeader(ig_files))
    => (proc = "exited" /\ op.name = "InputGraph")

\* The keys of the records of all the shards.
LoadedKMers == readAppendFiles(ig_files, ig_binary, ig_kmer_length, <<>>, 1).kmers
LoadedKeys == {LoadedKMers[i].key : i \in 1..Len(LoadedKMers)}
LoadedLabels == {KeyLabel(k) : k \in LoadedKeys}
MergedKey(label) == KeyEncode(label, OrBits({k \in LoadedKeys : KeyLabel(k) = label}))

\* C6: read(keys) returns one key per distinct label of the loaded records, in
\* increasing order, each the merge of all loaded keys with that label; their number
\* is the number of distinct labels, for any number of shards and of records.
C6_OneKeyPerLabel ==
  (op.name = "read(keys)" /\ proc = "running")
    => /\ out_keys = Increasing({MergedKey(label) : label \in LoadedLabels})
       /\ Len(out_keys) = Cardinality(LoadedLabels)

\* C7: after a load, whole-graph or per shard, a record is marked sorted exactly when
\* its destination is the sink node, recovered from the end-marker record (label 0)
\* of the records of all the shards, at a nonzero offset, whichever shard holds the
\* end marker.
C7_SinkMarkingIsGlobal ==
  (op.name \in {"read(kmers)", "read(kmers, file)"} /\ proc = "running"
     /\ ~readAppendFiles(ig_files, ig_binary, ig_kmer_length, <<>>, 1).exit)
    => \A i \in 1..Len(out_kmers) :
         out_kmers[i].sorted
           <=> (NodeId(out_kmers[i].to) = SinkNode(LoadedKMers) /\ NodeOffset(out_kmers[i].to) > 0)

-----------------------------------------------------------------------------
(* Claims about the PathGraph. *)

Range(seq) == {seq[i] : i \in 1..Len(seq)}
Occurrences(seq, x) == Cardinality({i \in 1..Len(seq) : seq[i] = x})
SameRecords(a, b) ==
  /\ Len(a) = Len(b)
  /\ \A x \in Range(a) \cup Range(b) : Occurrences(a, x) = Occurrences(b, x)
RECURSIVE SumSeq(_)
SumSeq(seq) == IF seq = <<>> THEN 0 ELSE Head(seq) + SumSeq(Tail(seq))

\* The live PathGraph objects that list the temporary file named n.
Owners(n) == {slot \in 1..MaxGraphs : pg[slot].live /\ n \in Range(pg[slot].filenames)}

\* Every temporary file that exists belongs to a live object of a running process.
NoOrphanFiles ==
  \A n \in 1..temp_count : disk[n].exists => (proc = "running" /\ Owners(n) # {})
\* No temporary file is listed by two live objects.
OneOwner == \A n \in 1..temp_count : Cardinality(Owners(n)) <= 1
\* No temporary file is removed by two objects.
OneRemover == \A n \in 1..temp_count : Cardinality(removals[n]) <= 1

\* C8: after any sequence of PathGraph operations and on every exit path, fatal
\* exits included, every temporary shard file of an object that was discarded or
\* replaced has been deleted, each file is listed by at most one live object, and no
\* file is deleted by two objects.
C8_TempFilesAreScoped == NoOrphanFiles /\ OneOwner /\ OneRemover

\* The PathNodes in the files of graph g, file after file.
RECURSIVE StoredPaths(_, _)
StoredPaths(g, file) ==
  IF file > Len(g.filenames) THEN <<>>
  ELSE disk[g.filenames[file]].paths \o StoredPaths(g, file + 1)

OrderedByFirst(paths) ==
  \A i \in 1..(Len(paths) - 1) : FirstLabel(paths[i]) <= FirstLabel(paths[i + 1])

\* C9: read(paths, labels) returns path_count records, the sum of the per-shard
\* counts: the records of every shard file, each once, ordered by first label; and
\* read(paths, labels, f) returns the sizes[f] records of shard file f.
C9_ReadReturnsEachRecordOnce ==
  /\ (pop.name = "read(paths, labels)" /\ proc = "running")
       => /\ Len(out_paths.paths) = pg[pop.graph].path_count
          /\ pg[pop.graph].path_count = SumSeq(pg[pop.graph].sizes)
          /\ SameRecords(out_paths.paths, StoredPaths(pg[pop.graph], 1))
          /\ OrderedByFirst(out_paths.paths)
  /\ (pop.name = "read(paths, labels, file)" /\ proc = "running")
       => /\ Len(out_paths.paths) = pg[pop.graph].sizes[pop.file]
          /\ out_paths.paths = disk[pg[pop.graph].filenames[pop.file]].paths

-----------------------------------------------------------------------------
(* Claims about the counts of the scan and of the loads. *)

\* The records read(kmers, file) loads from shard file, when it returns.
LoadedFrom(file) == readOneFile(ig_files, ig_binary, ig_kmer_length, file)
\* The PathGraph the constructor builds from the graph, every file opened.
BuiltFromInput ==
  PathGraphFromInput(World(<<>>, 0, <<>>), ig_files, ig_sizes, ig_kmer_length, 0)

\* C11: for every constructed InputGraph, binary or text, lines of a field count
\* other than 5 included, the count sizes[f] of the construction scan is the number
\* of records read(kmers, f) loads from shard f, so size() is the number of records
\* read(kmers) returns, read(keys) never indexes past the loaded records, and a
\* PathGraph built from a binary graph records for each shard the number of
\* PathNodes written to its file.
C11_ScanCountsAgreeWithLoadCounts ==
  (Constructed /\ proc = "running") =>
    /\ \A f \in 1..Len(ig_files) :
         ~LoadedFrom(f).exit => Len(LoadedFrom(f).kmers) = ig_sizes[f]
    /\ op.name = "read(kmers, file)" => Len(out_kmers) = ig_sizes[op.file]
    /\ op.name = "read(kmers)" => Len(out_kmers) = ig_kmer_count
    /\ ig_kmer_count = SumSeq(ig_sizes)
    /\ (ig_binary /\ ~BuiltFromInput.exit) =>
         \A f \in 1..Len(ig_files) :
           BuiltFromInput.graph.sizes[f]
             = Len(BuiltFromInput.world.disk[BuiltFromInput.graph.filenames[f]].paths)

-----------------------------------------------------------------------------
(* PathGraph::prune, one doubling round over the sorted paths. *)

\* x++ on a size_type.
Inc(x) == IF x = UNKNOWN THEN 0 ELSE x + 1

\* sameFrom(range, ...): the paths of the range share their from position.
sameFrom(paths, first, second) == \A i \in first..second : paths[i].from = paths[first].from

\* The names of the counters one pass of the loop body increments, path by path of
\* the range: a range of one origin is merged and counted once, under unique.
countedAs(paths, first, second) ==
  IF sameFrom(paths, first, second) THEN <<"unique">>
  ELSE [i \in 1..(second - first + 1) |->
          IF paths[first + i - 1].sorted THEN "nondeterministic" ELSE "unsorted"]

RECURSIVE countAll(_, _)
countAll(g, names) ==
  IF names = <<>> THEN g
  ELSE countAll(
         CASE Head(names) = "unique" -> [g EXCEPT !.unique = Inc(@)]
           [] Head(names) = "unsorted" -> [g EXCEPT !.unsorted = Inc(@)]
           [] OTHER -> [g EXCEPT !.nondeterministic = Inc(@)],
         Tail(names))

\* A loop body that leaves the unsorted paths of a range uncounted.
pruneRangeLosingUnsorted(g, paths, first, second) ==
  countAll(g, SelectSeq(countedAs(paths, first, second), LAMBDA name : name # "unsorted"))
\* The body of the loop of prune on builder.graph g for one range.
pruneRange(g, paths, first, second) == countAll(g, countedAs(paths, first, second))

PathSamples ==
  { [from |-> NodeEncode(id, 0), to |-> NodeEncode(3, 0), sorted |-> sorted, ranks |-> <<label, label>>] :
      id \in 1..2, sorted \in BOOLEAN, label \in 0..1 }

PruneInit ==
  /\ proc = "running"
  /\ InputIdle
  /\ CodecIdle
  /\ \E paths \in BoundedSeq(PathSamples, MaxPaths) : \E file_count \in 1..MaxFiles :
       /\ \A i \in 1..(Len(paths) - 1) : FirstLabel(paths[i]) <= FirstLabel(paths[i + 1])
       /\ round = NoRound(paths)
       /\ pg = [g \in 1..MaxGraphs |->
                  IF g = 1
                  THEN [ClearedGraph(TRUE) EXCEPT
                          !.filenames = [f \in 1..file_count |-> f],
                          !.sizes = [f \in 1..file_count |-> IF f = 1 THEN Len(paths) ELSE 0],
                          !.rank_counts = [f \in 1..file_count |-> IF f = 1 THEN 2 * Len(paths) ELSE 0],
                          !.path_count = Len(paths), !.rank_count = 2 * Len(paths), !.order = 2]
                  ELSE ClearedGraph(FALSE)]
       /\ disk = [f \in 1..file_count |->
                    [exists |-> TRUE, paths |-> IF f = 1 THEN paths ELSE <<>>]]
       /\ temp_count = file_count
       /\ removals = [f \in 1..file_count |-> {}]
  /\ out_paths = NoPaths /\ pop = NoPathOp

\* prune, up to the loop: PathGraphBuilder builder(this->files(), this->k()), and
\* firstRange. this is the graph in slot 1, builder.graph the one in slot 2.
PruneBegin(fail_at) ==
  /\ proc = "running" /\ round.pc = "idle" /\ pg[1].live /\ ~pg[2].live
  /\ temp_count + Len(pg[1].filenames) <= MaxTemp
  /\ LET res == PathGraphBuilder(TheWorld, Len(pg[1].filenames), pg[1].order, fail_at)
     IN /\ PathStep(res, 2, "prune", 0)
        /\ round' = [round EXCEPT !.pc = IF res.exit THEN "idle" ELSE "loop", !.first = 1]
  /\ UNCHANGED <<out_paths, codecVars, inputVars>>

\* One pass of the loop: the range from round.first to second, which nextRange
\* will follow with the range starting right after it.
PruneRange(second) ==
  /\ proc = "running" /\ round.pc = "loop"
  /\ round.first - 1 < pg[1].path_count
  /\ second \in round.first..Len(round.paths)
  /\ LET names == countedAs(round.paths, round.first, second)
     IN /\ pg' = [pg EXCEPT ![2] = pruneRange(@, round.paths, round.first, second)]
        /\ round' = [round EXCEPT
             !.first = second + 1,
             !.groups = Append(@, [first |-> round.first, second |-> second,
                                   counters |-> {names[i] : i \in 1..Len(names)}]),
             !.counted = [i \in 1..Len(round.paths) |->
                            IF i \in round.first..second
                            THEN Append(@[i], IF Len(names) = 1 THEN names[1]
                                              ELSE names[i - round.first + 1])
                            ELSE @[i]]]
  /\ UNCHANGED <<proc, disk, temp_count, removals, out_paths, pop, codecVars, inputVars>>

\* prune, after the loop: this->clear(); builder.close(); this->swap(builder.graph);
\* and builder goes out of scope.
PruneEnd ==
  /\ proc = "running" /\ round.pc = "loop"
  /\ ~(round.first - 1 < pg[1].path_count)
  /\ LET cleared == clear(TheWorld, pg[1], 1)
         dropped == clear(cleared.world, cleared.graph, 2)
     IN /\ disk' = dropped.world.disk
        /\ temp_count' = dropped.world.temp_count
        /\ removals' = dropped.world.removals
        /\ pg' = [pg EXCEPT ![1] = pg[2], ![2] = [dropped.graph EXCEPT !.live = FALSE]]
  /\ round' = [round EXCEPT !.pc = "done"]
  /\ pop' = PathOp("prune", 1, 0)
  /\ UNCHANGED <<proc, out_paths, codecVars, inputVars>>

PruneNext ==
  \/ \E fail_at \in 0..MaxFiles : PruneBegin(fail_at)
  \/ \E second \in 1..MaxPaths : PruneRange(second)
  \/ PruneEnd

SpecPrune == PruneInit /\ [][PruneNext]_vars

-----------------------------------------------------------------------------
(* Claims about the doubling round. *)

InRound == round.pc \in {"loop", "done"}
\* The graph that holds the round's counters: builder.graph, which this becomes.
RoundGraph == IF round.pc = "done" THEN pg[1] ELSE pg[2]
\* The number of paths the ranges formed so far cover.
Covered == round.first - 1

\* The ranges follow one another from the first path on, and a finished round's
\* ranges cover the input: their sizes sum to the number of input paths.
GroupsPartition ==
  /\ \A j \in 1..Len(round.groups) :
       /\ round.groups[j].first = (IF j = 1 THEN 1 ELSE round.groups[j - 1].second + 1)
       /\ round.groups[j].first <= round.groups[j].second
  /\ Covered = (IF round.groups = <<>> THEN 0 ELSE round.groups[Len(round.groups)].second)
  /\ SumSeq([j \in 1..Len(round.groups) |->
               round.groups[j].second - round.groups[j].first + 1]) = Covered
  /\ round.pc = "done" => Covered = Len(round.paths)

\* Every covered path was counted once, no other path was counted.
EachPathCountedOnce ==
  \A i \in 1..Len(round.paths) : Len(round.counted[i]) = (IF i <= Covered THEN 1 ELSE 0)

\* The counters start at zero and hold what was counted: unique the ranges counted
\* as a whole, unsorted and nondeterministic the paths counted one by one.
CountersTally ==
  /\ RoundGraph.unique = Cardinality({j \in 1..Len(round.groups) : "unique" \in round.groups[j].counters})
  /\ RoundGraph.unsorted = Cardinality({i \in 1..Covered : round.counted[i] = <<"unsorted">>})
  /\ RoundGraph.nondeterministic =
       Cardinality({i \in 1..Covered : round.counted[i] = <<"nondeterministic">>})

=============================================================================
